---- MODULE Spec2Model ----
(***************************************************************************)
(* A model of munkres() of src/pymunkres/munkres.py: the Kuhn-Munkres      *)
(* (Hungarian) minimum-cost assignment on a rectangular cost matrix, with  *)
(* virtual padding to a PAD x PAD square, row/column potentials, a         *)
(* recursive augmenting-path search and an optimality certificate.         *)
(*                                                                         *)
(* Python lists are indexed from 0.  The vectors of the solver (u, v, Z,   *)
(* inversions) are functions on 0..PAD-1; the cost matrix and the returned *)
(* lists are sequences, and Cell reads cost_matrix[i][j] with the 0-based  *)
(* indices of the code.                                                    *)
(*                                                                         *)
(* Numbers: a cost is a Python int or one of the floats +inf, -inf, nan.   *)
(* The three floats are encoded as integers outside the range of the       *)
(* finite values (PosInf, NegInf, NaN) and FAdd, FSub, FLt, FEq compute on *)
(* them as IEEE-754 does (inf - inf = nan, every comparison with nan is    *)
(* false).  On integers |x| < 1e-9 is x = 0 and |x| > 1e-9 is x # 0.       *)
(***************************************************************************)
EXTENDS Integers, Sequences, FiniteSets, TLC

(* ---------------------------------------------------------------------- *)
(* Bounds of the model.                                                    *)
(* ---------------------------------------------------------------------- *)
\* Largest number of rows and of columns of an input matrix.
MaxDim == 3
\* Finite costs and pad costs range over -MaxCost..MaxCost.
MaxCost == 1
\* Thin matrices: one dimension at most MaxThin, the other at most MaxWide.
MaxThin == 2
MaxWide == 4

(* ---------------------------------------------------------------------- *)
(* Extended numbers.                                                       *)
(* ---------------------------------------------------------------------- *)
PosInf == 1000000
NegInf == -1000000
NaN == 2000000

IsFinite(x) == x # PosInf /\ x # NegInf /\ x # NaN

isnan(x) == x = NaN

\* a < b of Python floats: false as soon as one side is nan.
FLt(a, b) == a # NaN /\ b # NaN /\ a < b

\* a == b of Python floats: nan equals nothing.
FEq(a, b) == a # NaN /\ b # NaN /\ a = b

\* a + b
FAdd(a, b) ==
    IF a = NaN \/ b = NaN THEN NaN
    ELSE IF a = PosInf THEN (IF b = NegInf THEN NaN ELSE PosInf)
    ELSE IF a = NegInf THEN (IF b = PosInf THEN NaN ELSE NegInf)
    ELSE IF b = PosInf \/ b = NegInf THEN b
    ELSE a + b

\* -a
FNeg(a) ==
    IF a = NaN THEN NaN
    ELSE IF a = PosInf THEN NegInf
    ELSE IF a = NegInf THEN PosInf
    ELSE 0 - a

\* a - b
FSub(a, b) == FAdd(a, FNeg(b))

\* abs(a)
FAbs(a) == IF a = NegInf THEN PosInf ELSE IF IsFinite(a) /\ a < 0 THEN 0 - a ELSE a

\* abs(x) < __EPS, abs(x) > __EPS and abs(x) >= __EPS: the values of the model
\* are integers or inf/nan, so the tolerance 1e-9 separates 0 from the rest.
AbsLtEps(x) == x = 0
AbsGtEps(x) == x # NaN /\ x # 0
AbsGeEps(x) == x # NaN /\ x # 0

\* Python's min(a, b): b replaces a only when b < a.
PyMin2(a, b) == IF FLt(b, a) THEN b ELSE a

\* min over f[k], f[k+1], ..., f[n-1], folded in index order from acc.
RECURSIVE MinFold(_, _, _, _)
MinFold(f, k, n, acc) ==
    IF k >= n THEN acc ELSE MinFold(f, k + 1, n, PyMin2(acc, f[k]))

\* min of a non-empty finite set of numbers none of which is nan.
SetMin(X) == CHOOSE x \in X : \A y \in X : x <= y

Max2(a, b) == IF a >= b THEN a ELSE b
Min2(a, b) == IF a <= b THEN a ELSE b

(* ---------------------------------------------------------------------- *)
(* State.                                                                  *)
(* ---------------------------------------------------------------------- *)
VARIABLES
    cost_matrix,  \* argument: a sequence of rows, each a sequence of numbers
    pad_cost,     \* argument
    N, M, PAD,    \* len(cost_matrix), len(cost_matrix[0]), PAD_N = PAD_M
    u, v,         \* row and column potentials, on 0..PAD-1
    Z,            \* padded assignment, on 0..PAD-1, -1 = unassigned
    inversions,   \* padded inversion vector, on 0..PAD-1, -1 = free
    i,            \* the row of the outer for loop
    S, T,         \* rows and columns visited by the last search
    path,         \* the path returned by the last search
    path_found,   \* its flag
    cycle_seen,   \* the last search took the "cycle" return
    pc,           \* "start", "search", "update", "apply", "return", "done", "error"
    err,          \* the exception raised, "none" if none
    result,       \* the returned triple, once pc = "done"
    delta,        \* the delta of the last failed search (0 before the first)
    aborted,      \* history: the |delta| < eps break of line 169 was taken
    updates,      \* history: potential updates made so far for row i
    prevT         \* history: T of the failed search before the last update of row i

vars == <<cost_matrix, pad_cost, N, M, PAD, u, v, Z, inversions, i, S, T,
          path, path_found, cycle_seen, pc, err, result,
          delta, aborted, updates, prevT>>

NoResult == [assignment |-> <<>>, inversion |-> <<>>, is_optimal |-> FALSE]

\* cost_matrix[i][j], 0-based.
Cell(cm, r, c) == cm[r + 1][c + 1]

(* ---------------------------------------------------------------------- *)
(* __reduced_cost                                                          *)
(* ---------------------------------------------------------------------- *)
\* Faulty variant: the column potential is left out of the reduced cost.
reduced_cost_no_v(cm, up, vp, r, c, n, m, pad) ==
    LET rc == IF r < n /\ c < m
              THEN FSub(Cell(cm, r, c), up[r])
              ELSE FSub(pad, up[r])
    IN IF isnan(rc) THEN 0 ELSE rc

reduced_cost(cm, up, vp, r, c, n, m, pad) ==
    LET rc == IF r < n /\ c < m
              THEN FSub(FSub(Cell(cm, r, c), up[r]), vp[c])
              ELSE FSub(FSub(pad, up[r]), vp[c])
    IN IF isnan(rc) THEN 0 ELSE rc

(* ---------------------------------------------------------------------- *)
(* Potential initialisation (munkres, lines 92-119).                       *)
(* ---------------------------------------------------------------------- *)
\* Faulty variant: the row potential is the largest cost of the row, not the least.
init_u_max(cm, n, m, p, pad) ==
    [r \in 0..(p - 1) |->
        IF r >= n THEN pad
        ELSE LET row == [c \in 0..(p - 1) |-> IF c < m THEN Cell(cm, r, c) ELSE pad]
                 row_max == FNeg(MinFold([c \in 0..(p - 1) |-> FNeg(row[c])], 1, p,
                                         FNeg(row[0])))
             IN IF isnan(row_max) THEN 0 ELSE row_max]

init_u(cm, n, m, p, pad) ==
    [r \in 0..(p - 1) |->
        IF r >= n THEN pad
        ELSE LET row == [c \in 0..(p - 1) |-> IF c < m THEN Cell(cm, r, c) ELSE pad]
                 row_min == MinFold(row, 1, p, row[0])
             IN IF isnan(row_min) THEN 0 ELSE row_min]

\* Faulty variant: the column minimum is taken over the costs, not over cost - u[i].
init_v_no_u(cm, up, n, m, p, pad) ==
    [c \in 0..(p - 1) |->
        LET col == [r \in 0..(p - 1) |->
                      LET cost == IF r < n /\ c < m THEN Cell(cm, r, c) ELSE pad
                      IN IF isnan(cost) THEN 0 ELSE cost]
        IN MinFold(col, 0, p, PosInf)]

init_v(cm, up, n, m, p, pad) ==
    [c \in 0..(p - 1) |->
        LET col == [r \in 0..(p - 1) |->
                      LET cost == IF r < n /\ c < m
                                  THEN FSub(Cell(cm, r, c), up[r])
                                  ELSE FSub(pad, IF r < n THEN up[r] ELSE pad)
                      IN IF isnan(cost) THEN 0 ELSE cost]
        IN MinFold(col, 0, p, PosInf)]

(* ---------------------------------------------------------------------- *)
(* __search_augmented_path.  Scan is the for loop of one call, standing at *)
(* column j of row r with the path and flag built so far; S and T are the  *)
(* sets shared by all the calls of one search.                             *)
(* ---------------------------------------------------------------------- *)
\* Faulty variant: the loop of a call ends after its first failed sub-search
\* (the break is taken whether or not a path was found).
RECURSIVE Scan_break_always(_, _, _, _, _, _, _, _, _, _, _, _, _)
Scan_break_always(r, j, cm, n, m, p, pad, inv, up, vp, St, pth, pf) ==
    IF j >= p
    THEN [path |-> pth, found |-> pf, S |-> St.S, T |-> St.T, cycle |-> St.cycle]
    ELSE
      LET rc == reduced_cost(cm, up, vp, r, j, n, m, pad) IN
      IF AbsGtEps(rc) \/ j \in St.T
      THEN Scan_break_always(r, j + 1, cm, n, m, p, pad, inv, up, vp, St, pth, pf)
      ELSE IF inv[j] = -1
      THEN [path |-> << <<r, j>> >>, found |-> TRUE,
            S |-> St.S, T |-> St.T, cycle |-> St.cycle]
      ELSE IF inv[j] \in St.S
      THEN [path |-> << >>, found |-> FALSE,
            S |-> St.S, T |-> St.T, cycle |-> TRUE]
      ELSE
        LET St2 == [S |-> St.S \cup {inv[j]}, T |-> St.T \cup {j}, cycle |-> St.cycle]
            sub == Scan_break_always(inv[j], 0, cm, n, m, p, pad, inv, up, vp, St2,
                                     << >>, pf)
        IN [path |-> << <<r, j>> >> \o sub.path, found |-> sub.found,
            S |-> sub.S, T |-> sub.T, cycle |-> sub.cycle]

\* Faulty variant: visited columns are not skipped (the "or j in T" is missing).
RECURSIVE Scan_no_T(_, _, _, _, _, _, _, _, _, _, _, _, _)
Scan_no_T(r, j, cm, n, m, p, pad, inv, up, vp, St, pth, pf) ==
    IF j >= p
    THEN [path |-> pth, found |-> pf, S |-> St.S, T |-> St.T, cycle |-> St.cycle]
    ELSE
      LET rc == reduced_cost(cm, up, vp, r, j, n, m, pad) IN
      IF AbsGtEps(rc)
      THEN Scan_no_T(r, j + 1, cm, n, m, p, pad, inv, up, vp, St, pth, pf)
      ELSE IF inv[j] = -1
      THEN [path |-> << <<r, j>> >>, found |-> TRUE,
            S |-> St.S, T |-> St.T, cycle |-> St.cycle]
      ELSE IF inv[j] \in St.S
      THEN [path |-> << >>, found |-> FALSE,
            S |-> St.S, T |-> St.T, cycle |-> TRUE]
      ELSE
        LET St2 == [S |-> St.S \cup {inv[j]}, T |-> St.T \cup {j}, cycle |-> St.cycle]
            sub == Scan_no_T(inv[j], 0, cm, n, m, p, pad, inv, up, vp, St2, << >>, pf)
            ext == << <<r, j>> >> \o sub.path
            St3 == [S |-> sub.S, T |-> sub.T, cycle |-> sub.cycle]
        IN IF sub.found
           THEN [path |-> ext, found |-> TRUE,
                 S |-> sub.S, T |-> sub.T, cycle |-> sub.cycle]
           ELSE Scan_no_T(r, j + 1, cm, n, m, p, pad, inv, up, vp, St3, ext, sub.found)

RECURSIVE Scan(_, _, _, _, _, _, _, _, _, _, _, _, _)
Scan(r, j, cm, n, m, p, pad, inv, up, vp, St, pth, pf) ==
    IF j >= p
    THEN [path |-> pth, found |-> pf, S |-> St.S, T |-> St.T, cycle |-> St.cycle]
    ELSE
      LET rc == reduced_cost(cm, up, vp, r, j, n, m, pad) IN
      IF AbsGtEps(rc) \/ j \in St.T
      THEN Scan(r, j + 1, cm, n, m, p, pad, inv, up, vp, St, pth, pf)
      ELSE IF inv[j] = -1
      THEN [path |-> << <<r, j>> >>, found |-> TRUE,
            S |-> St.S, T |-> St.T, cycle |-> St.cycle]
      ELSE IF inv[j] \in St.S
      THEN [path |-> << >>, found |-> FALSE,
            S |-> St.S, T |-> St.T, cycle |-> TRUE]
      ELSE
        LET St2 == [S |-> St.S \cup {inv[j]}, T |-> St.T \cup {j}, cycle |-> St.cycle]
            sub == Scan(inv[j], 0, cm, n, m, p, pad, inv, up, vp, St2, << >>, pf)
            ext == << <<r, j>> >> \o sub.path
            St3 == [S |-> sub.S, T |-> sub.T, cycle |-> sub.cycle]
        IN IF sub.found
           THEN [path |-> ext, found |-> TRUE,
                 S |-> sub.S, T |-> sub.T, cycle |-> sub.cycle]
           ELSE Scan(r, j + 1, cm, n, m, p, pad, inv, up, vp, St3, ext, sub.found)

search_augmented_path(r, cm, n, m, p, pad, inv, up, vp, S0, T0) ==
    Scan(r, 0, cm, n, m, p, pad, inv, up, vp,
         [S |-> S0, T |-> T0, cycle |-> FALSE], << >>, FALSE)

(* ---------------------------------------------------------------------- *)
(* Potential update (munkres, lines 152-183).                              *)
(* ---------------------------------------------------------------------- *)
\* Faulty variant: delta ranges over every column, the visited ones included.
compute_delta_all_cols(cm, up, vp, n, m, p, pad, Sv, Tv) ==
    LET rcs == {reduced_cost(cm, up, vp, r, c, n, m, pad) :
                    r \in Sv, c \in 0..(p - 1)}
    IN IF rcs = {} THEN 0 ELSE SetMin(rcs)

compute_delta(cm, up, vp, n, m, p, pad, Sv, Tv) ==
    LET rcs == {reduced_cost(cm, up, vp, r, c, n, m, pad) :
                    r \in Sv, c \in (0..(p - 1)) \ Tv}
    IN IF rcs = {} THEN 0 ELSE SetMin(rcs)

\* Faulty variant: the visited row potentials are left as they were.
update_u_keep(up, d, Sv) ==
    [r \in DOMAIN up |-> IF isnan(up[r]) THEN 0 ELSE up[r]]

\* Faulty variant: delta is added to every row potential, visited or not.
update_u_all(up, d, Sv) ==
    [r \in DOMAIN up |->
        LET new_u == FAdd(up[r], d)
        IN IF isnan(new_u) THEN 0 ELSE new_u]

update_u(up, d, Sv) ==
    [r \in DOMAIN up |->
        LET new_u == IF r \in Sv THEN FAdd(up[r], d) ELSE up[r]
        IN IF isnan(new_u) THEN 0 ELSE new_u]

\* Faulty variant: delta is added to the visited column potentials, not subtracted.
update_v_add(vp, d, Tv) ==
    [c \in DOMAIN vp |->
        LET new_v == IF c \in Tv THEN FAdd(vp[c], d) ELSE vp[c]
        IN IF isnan(new_v) THEN 0 ELSE new_v]

update_v(vp, d, Tv) ==
    [c \in DOMAIN vp |->
        LET new_v == IF c \in Tv THEN FSub(vp[c], d) ELSE vp[c]
        IN IF isnan(new_v) THEN 0 ELSE new_v]

(* ---------------------------------------------------------------------- *)
(* Inverting the edges of an augmenting path (munkres, lines 185-197).     *)
(* ---------------------------------------------------------------------- *)
\* Faulty variant: the inversion vector is not written when an edge is assigned.
flip_edge_no_inv(zi, edge) ==
    LET row_i == edge[1]
        col_j == edge[2]
    IN IF zi.Z[row_i] = col_j
       THEN [Z |-> [zi.Z EXCEPT ![row_i] = -1],
             inv |-> [zi.inv EXCEPT ![col_j] = -1]]
       ELSE [Z |-> [zi.Z EXCEPT ![row_i] = col_j], inv |-> zi.inv]

\* Faulty variant: any edge whose row is assigned is taken for an assignment to invert.
flip_edge_any_assigned(zi, edge) ==
    LET row_i == edge[1]
        col_j == edge[2]
    IN IF zi.Z[row_i] # -1
       THEN [Z |-> [zi.Z EXCEPT ![row_i] = -1],
             inv |-> [zi.inv EXCEPT ![col_j] = -1]]
       ELSE [Z |-> [zi.Z EXCEPT ![row_i] = col_j],
             inv |-> [zi.inv EXCEPT ![col_j] = row_i]]

flip_edge(zi, edge) ==
    LET row_i == edge[1]
        col_j == edge[2]
    IN IF zi.Z[row_i] = col_j
       THEN [Z |-> [zi.Z EXCEPT ![row_i] = -1],
             inv |-> [zi.inv EXCEPT ![col_j] = -1]]
       ELSE [Z |-> [zi.Z EXCEPT ![row_i] = col_j],
             inv |-> [zi.inv EXCEPT ![col_j] = row_i]]

RECURSIVE flip_path(_, _, _)
flip_path(zi, pth, k) ==
    IF k > Len(pth) THEN zi ELSE flip_path(flip_edge(zi, pth[k]), pth, k + 1)

(* ---------------------------------------------------------------------- *)
(* __optimality_check                                                      *)
(* ---------------------------------------------------------------------- *)
RECURSIVE check_loop(_, _, _, _, _, _, _, _, _, _)
check_loop(cm, asg, up, vp, n, m, pad, k, p, acc) ==
    IF k >= p
    THEN (IF FEq(FAdd(acc.u_sum, acc.v_sum), acc.cost_sum)
          THEN TRUE
          ELSE AbsLtEps(FAbs(FSub(FSub(acc.cost_sum, acc.u_sum), acc.v_sum))))
    ELSE IF asg[k] = -1
    THEN check_loop(cm, asg, up, vp, n, m, pad, k + 1, p, acc)
    ELSE
      LET j == asg[k]
          acc2 == [u_sum |-> FAdd(acc.u_sum, up[k]),
                   v_sum |-> FAdd(acc.v_sum, vp[j]),
                   cost_sum |-> FAdd(acc.cost_sum,
                                     IF k < n /\ j < m THEN Cell(cm, k, j) ELSE pad)]
      IN IF AbsGeEps(FAbs(reduced_cost(cm, up, vp, k, j, n, m, pad)))
         THEN FALSE
         ELSE check_loop(cm, asg, up, vp, n, m, pad, k + 1, p, acc2)

optimality_check(cm, asg, up, vp, n, m, pad) ==
    check_loop(cm, asg, up, vp, n, m, pad, 0, Cardinality(DOMAIN asg),
               [u_sum |-> 0, v_sum |-> 0, cost_sum |-> 0])

(* ---------------------------------------------------------------------- *)
(* The trimmed vectors of the return statement (munkres, lines 202-205).   *)
(* ---------------------------------------------------------------------- *)
\* Faulty variant: the padded assignment is cut to N rows but virtual columns are kept.
trim_assignment_keep(Zv, n, m) ==
    [k \in 1..n |-> Zv[k - 1]]

trim_assignment(Zv, n, m) ==
    [k \in 1..n |-> IF Zv[k - 1] < m THEN Zv[k - 1] ELSE -1]

trim_inversion(inv, n, m) ==
    [k \in 1..m |-> IF inv[k - 1] < n THEN inv[k - 1] ELSE -1]

(* ---------------------------------------------------------------------- *)
(* Inputs.                                                                 *)
(* ---------------------------------------------------------------------- *)
Costs == (0 - MaxCost)..MaxCost

Matrices(n, m, Vals) == [1..n -> [1..m -> Vals]]

FiniteMatrices ==
    UNION {Matrices(n, m, Costs) : n \in 1..MaxDim, m \in 1..MaxDim}

InitWith(cm, pad) ==
    /\ cost_matrix = cm
    /\ pad_cost = pad
    /\ N = 0 /\ M = 0 /\ PAD = 0
    /\ u = << >> /\ v = << >> /\ Z = << >> /\ inversions = << >>
    /\ i = 0
    /\ S = {} /\ T = {}
    /\ path = << >>
    /\ path_found = FALSE
    /\ cycle_seen = FALSE
    /\ pc = "start"
    /\ err = "none"
    /\ result = NoResult
    /\ delta = 0
    /\ aborted = FALSE
    /\ updates = 0
    /\ prevT = {}

Init == \E cm \in FiniteMatrices, pad \in Costs : InitWith(cm, pad)

(* ---------------------------------------------------------------------- *)
(* Actions.                                                                *)
(* ---------------------------------------------------------------------- *)
\* munkres, lines 75-125: the checks on the input, the 1 x 1 case, the
\* padded size, the initial potentials and the empty matching.
Begin ==
    /\ pc = "start"
    /\ LET n == Len(cost_matrix)
           m == IF n > 0 THEN Len(cost_matrix[1]) ELSE 0
           p == Max2(n, m)
       IN IF n = 0 \/ m = 0
          THEN /\ pc' = "error"
               /\ err' = "AssertionError"
               /\ UNCHANGED <<N, M, PAD, u, v, Z, inversions, result>>
          ELSE IF n = 1 /\ m = 1
          THEN /\ pc' = "done"
               /\ result' = [assignment |-> <<0>>, inversion |-> <<0>>,
                             is_optimal |-> TRUE]
               /\ N' = n /\ M' = m
               /\ UNCHANGED <<PAD, u, v, Z, inversions, err>>
          ELSE IF \E r \in 1..n : Len(cost_matrix[r]) < m
          THEN \* cost_matrix[i][j] of line 99 on a row shorter than row 0
               /\ pc' = "error"
               /\ err' = "IndexError"
               /\ N' = n /\ M' = m /\ PAD' = p
               /\ UNCHANGED <<u, v, Z, inversions, result>>
          ELSE /\ N' = n /\ M' = m /\ PAD' = p
               /\ u' = init_u(cost_matrix, n, m, p, pad_cost)
               /\ v' = init_v(cost_matrix, u', n, m, p, pad_cost)
               /\ Z' = [r \in 0..(p - 1) |-> -1]
               /\ inversions' = [c \in 0..(p - 1) |-> -1]
               /\ pc' = "search"
               /\ UNCHANGED <<err, result>>
    /\ UNCHANGED <<cost_matrix, pad_cost, i, S, T, path, path_found, cycle_seen,
                   delta, aborted, updates, prevT>>

\* munkres, lines 131-151: one pass of the while loop up to the search.
Search ==
    /\ pc = "search"
    /\ LET res == search_augmented_path(i, cost_matrix, N, M, PAD, pad_cost,
                                        inversions, u, v, {i}, {})
       IN /\ path' = res.path
          /\ path_found' = res.found
          /\ S' = res.S
          /\ T' = res.T
          /\ cycle_seen' = res.cycle
          /\ pc' = IF res.found THEN "apply" ELSE "update"
    /\ UNCHANGED <<cost_matrix, pad_cost, N, M, PAD, u, v, Z, inversions, i,
                   err, result, delta, aborted, updates, prevT>>

\* munkres, lines 152-183: the search failed; delta, the defensive break,
\* or the update of the potentials and another pass.
Update ==
    /\ pc = "update"
    /\ LET d == compute_delta(cost_matrix, u, v, N, M, PAD, pad_cost, S, T)
       IN /\ delta' = d
          /\ IF AbsLtEps(FAbs(d))
             THEN /\ i' = i + 1
                  /\ pc' = IF i + 1 < PAD THEN "search" ELSE "return"
                  /\ aborted' = TRUE
                  /\ updates' = 0
                  /\ prevT' = {}
                  /\ UNCHANGED <<u, v>>
             ELSE /\ u' = update_u(u, d, S)
                  /\ v' = update_v(v, d, T)
                  /\ pc' = "search"
                  /\ updates' = Min2(updates + 1, PAD + 1)
                  /\ prevT' = T
                  /\ UNCHANGED <<i, aborted>>
    /\ UNCHANGED <<cost_matrix, pad_cost, N, M, PAD, Z, inversions, S, T,
                   path, path_found, cycle_seen, err, result>>

\* munkres, lines 185-197: the path is inverted edge by edge and the for
\* loop moves to the next row.
Apply ==
    /\ pc = "apply"
    /\ LET zi == flip_path([Z |-> Z, inv |-> inversions], path, 1)
       IN /\ Z' = zi.Z
          /\ inversions' = zi.inv
    /\ i' = i + 1
    /\ pc' = IF i + 1 < PAD THEN "search" ELSE "return"
    /\ updates' = 0
    /\ prevT' = {}
    /\ UNCHANGED <<cost_matrix, pad_cost, N, M, PAD, u, v, S, T, path,
                   path_found, cycle_seen, err, result, delta, aborted>>

\* munkres, lines 199-206.
Return ==
    /\ pc = "return"
    /\ result' = [assignment |-> trim_assignment(Z, N, M),
                  inversion |-> trim_inversion(inversions, N, M),
                  is_optimal |-> optimality_check(cost_matrix, Z, u, v, N, M, pad_cost)]
    /\ pc' = "done"
    /\ UNCHANGED <<cost_matrix, pad_cost, N, M, PAD, u, v, Z, inversions, i,
                   S, T, path, path_found, cycle_seen, err,
                   delta, aborted, updates, prevT>>

Next == Begin \/ Search \/ Update \/ Apply \/ Return

Spec == Init /\ [][Next]_vars

(* ---------------------------------------------------------------------- *)
(* Inputs that break the contract: any list of at most MaxDim rows, each   *)
(* any list of at most MaxDim costs (the empty list, empty rows and rows   *)
(* of unequal lengths included).                                           *)
(* ---------------------------------------------------------------------- *)
Rows(Vals) == UNION {[1..m -> Vals] : m \in 0..MaxDim}

AnyLists == UNION {[1..n -> Rows(0..MaxCost)] : n \in 0..MaxDim}

InitContract == \E cm \in AnyLists : InitWith(cm, 0)

SpecContract == InitContract /\ [][Next]_vars

(* ---------------------------------------------------------------------- *)
(* Thin matrices padded to a wider square: the search of one row can only  *)
(* fail twice when PAD >= 4.                                               *)
(* ---------------------------------------------------------------------- *)
ThinMatrices ==
    UNION {Matrices(n, m, Costs) : n \in 1..MaxWide, m \in 1..MaxThin}
      \cup UNION {Matrices(n, m, Costs) : n \in 1..MaxThin, m \in 1..MaxWide}

InitWide == \E cm \in ThinMatrices, pad \in Costs : InitWith(cm, pad)

SpecWide == InitWide /\ [][Next]_vars

(* ---------------------------------------------------------------------- *)
(* Matrices with forbidden (+inf) cells.                                   *)
(* ---------------------------------------------------------------------- *)
InfCosts == (0..MaxCost) \cup {PosInf}

InfMatrices ==
    UNION {Matrices(n, m, InfCosts) : n \in 1..MaxDim, m \in 1..MaxDim}

InitInf == \E cm \in InfMatrices, pad \in Costs : InitWith(cm, pad)

SpecInf == InitInf /\ [][Next]_vars

(* ---------------------------------------------------------------------- *)
(* The test suite: Test_Optimal_MXSquare of src/tests/test_optimal.py.     *)
(* ---------------------------------------------------------------------- *)
test_cases == <<
    \* Square 1
    [matrix |-> << <<400, 150, 400>>, <<400, 450, 600>>, <<300, 225, 300>> >>,
     expected |-> <<1, 0, 2>>],
    \* Square 2
    [matrix |-> << <<10, 10, 8>>, <<9, 8, 1>>, <<9, 7, 4>> >>,
     expected |-> <<0, 2, 1>>],
    \* Square 3
    [matrix |-> << <<10, 5, 13, 15, 16>>, <<3, 9, 18, 13, 6>>, <<10, 7, 2, 2, 2>>,
                   <<7, 11, 9, 7, 12>>, <<7, 9, 10, 4, 12>> >>,
     expected |-> <<1, 0, 4, 2, 3>>],
    \* Rectangular 1
    [matrix |-> << <<400, 150, 400, 1>>, <<400, 450, 600, 2>>, <<300, 225, 300, 3>> >>,
     expected |-> <<1, 3, 2>>],
    \* Rectangular 2
    [matrix |-> << <<10, 10, 8, 11>>, <<9, 8, 1, 1>>, <<9, 7, 4, 10>> >>,
     expected |-> <<1, 3, 2>>],
    \* Rectangular 3
    [matrix |-> << <<10, PosInf, PosInf>>, <<PosInf, PosInf, 1>>, <<PosInf, 7, PosInf>> >>,
     expected |-> <<0, 2, 1>>],
    \* Negative Square 1
    [matrix |-> << <<-400, -150, -400>>, <<-400, -450, -600>>, <<-300, -225, -300>> >>,
     expected |-> <<0, 2, 1>>],
    \* Negative Square 2
    [matrix |-> << <<-10, -10, -8>>, <<-9, -8, -1>>, <<-9, -7, -4>> >>,
     expected |-> <<2, 1, 0>>],
    \* Negative Square 3
    [matrix |-> << <<-10, -5, -13, -15, -16>>, <<-3, -9, -18, -13, -6>>,
                   <<-10, -7, -2, -2, -2>>, <<-7, -11, -9, -7, -12>>,
                   <<-7, -9, -10, -4, -12>> >>,
     expected |-> <<3, 2, 0, 1, 4>>],
    \* Negative Rectangular 1
    [matrix |-> << <<-400, -150, -400, -1>>, <<-400, -450, -600, -2>>,
                   <<-300, -225, -300, -3>> >>,
     expected |-> <<0, 2, 1>>],
    \* the 3 x 4 negative case
    [matrix |-> << <<-10, -10, -8, -11>>, <<-9, -8, -1, -1>>, <<-9, -7, -4, -10>> >>,
     expected |-> <<1, 0, 3>>],
    \* Negative Rectangular 3
    [matrix |-> << <<-10, NegInf, NegInf>>, <<NegInf, NegInf, -1>>, <<NegInf, -7, NegInf>> >>,
     expected |-> <<2, 1, 0>>] >>

RECURSIVE MaxLen(_, _)
MaxLen(cm, k) == IF k > Len(cm) THEN 0 ELSE Max2(Len(cm[k]), MaxLen(cm, k + 1))

\* _padding: what it leaves in the caller's list, and the count it returns.
\* Only the M > N branch changes the list (+= extends it in place); the
\* M < N branch rebinds a local name.
test_padding(cm) ==
    LET n == Len(cm)
        m == MaxLen(cm, 1)
    IN IF m > n
       THEN [matrix |-> cm \o [k \in 1..(m - n) |-> [c \in 1..m |-> 0]], pad |-> m - n]
       ELSE IF m < n
       THEN [matrix |-> cm, pad |-> n - m]
       ELSE [matrix |-> cm, pad |-> 0]

\* res[0][:-pad] if pad > 0 else res[0]
test_slice(a, pad) == IF pad > 0 THEN SubSeq(a, 1, Len(a) - pad) ELSE a

InitTests ==
    \E k \in 1..Len(test_cases) : InitWith(test_padding(test_cases[k].matrix).matrix, 0)

SpecTests == InitTests /\ [][Next]_vars

(* ---------------------------------------------------------------------- *)
(* __search_augmented_path called on its own (lines 273-340): a square     *)
(* matrix of costs 0..MaxCost with all potentials 0, so that the reduced   *)
(* cost of a cell is its cost; any partial matching of columns to rows as  *)
(* inversionVector; any root row, S = {root} and T = {} as at lines        *)
(* 135-136.                                                                *)
(* ---------------------------------------------------------------------- *)
InversionVectors(p) ==
    {inv \in [0..(p - 1) -> (-1)..(p - 1)] :
        \A c1, c2 \in 0..(p - 1) : (c1 # c2 /\ inv[c1] # -1) => inv[c1] # inv[c2]}

InitSearch ==
    \E p \in 2..MaxDim :
      \E cm \in Matrices(p, p, 0..MaxCost), inv \in InversionVectors(p), r \in 0..(p - 1) :
        /\ cost_matrix = cm
        /\ pad_cost = 0
        /\ N = p /\ M = p /\ PAD = p
        /\ u = [k \in 0..(p - 1) |-> 0]
        /\ v = [k \in 0..(p - 1) |-> 0]
        /\ inversions = inv
        /\ Z = [k \in 0..(p - 1) |->
                  IF \E c \in 0..(p - 1) : inv[c] = k
                  THEN CHOOSE c \in 0..(p - 1) : inv[c] = k
                  ELSE -1]
        /\ i = r
        /\ S = {} /\ T = {}
        /\ path = << >>
        /\ path_found = FALSE
        /\ cycle_seen = FALSE
        /\ pc = "search"
        /\ err = "none"
        /\ result = NoResult
        /\ delta = 0
        /\ aborted = FALSE
        /\ updates = 0
        /\ prevT = {}

SpecSearch == InitSearch /\ [][Search]_vars

(* ---------------------------------------------------------------------- *)
(* Reference notions used by the properties.                               *)
(* ---------------------------------------------------------------------- *)
\* The input is a rectangular grid of finite numbers with >= 1 row and column.
WellFormed(cm) ==
    /\ Len(cm) > 0
    /\ Len(cm[1]) > 0
    /\ \A r \in 1..Len(cm) : Len(cm[r]) = Len(cm[1])

FiniteEntries(cm) ==
    \A r \in 1..Len(cm) : \A c \in 1..Len(cm[r]) : IsFinite(cm[r][c])

FiniteInput == WellFormed(cost_matrix) /\ FiniteEntries(cost_matrix) /\ IsFinite(pad_cost)

\* The solver is past the initialisation of a padded instance.
Running == pc \in {"search", "update", "apply", "return"} \/ (pc = "done" /\ PAD > 0)

Idx == 0..(PAD - 1)

\* The cost of cell (r, c) of the padded square.
PadCell(r, c) == IF r < N /\ c < M THEN Cell(cost_matrix, r, c) ELSE pad_cost

\* cost(r, c) - u[r] - v[c] in plain integer arithmetic.
Slack(r, c) == PadCell(r, c) - u[r] - v[c]

RECURSIVE SumFun(_, _)
SumFun(f, D) ==
    IF D = {} THEN 0
    ELSE LET x == CHOOSE y \in D : TRUE IN f[x] + SumFun(f, D \ {x})

Injections(A, B) == {f \in [A -> B] : \A a1, a2 \in A : a1 # a2 => f[a1] # f[a2]}

\* The least total cost of pairing min(n, m) rows with distinct columns,
\* by enumeration of every such pairing.
MinAssignCost(cm, n, m) ==
    IF n <= m
    THEN SetMin({SumFun([r \in 0..(n - 1) |-> Cell(cm, r, f[r])], 0..(n - 1)) :
                    f \in Injections(0..(n - 1), 0..(m - 1))})
    ELSE SetMin({SumFun([c \in 0..(m - 1) |-> Cell(cm, g[c], c)], 0..(m - 1)) :
                    g \in Injections(0..(m - 1), 0..(n - 1))})

AssignedRows == {k \in 1..Len(result.assignment) : result.assignment[k] # -1}
OccupiedCols == {k \in 1..Len(result.inversion) : result.inversion[k] # -1}

\* The total cost of the returned assignment over its real cells.
ReturnedCost ==
    SumFun([k \in AssignedRows |-> Cell(cost_matrix, k - 1, result.assignment[k])],
           AssignedRows)

(* ---------------------------------------------------------------------- *)
(* Properties.                                                             *)
(* ---------------------------------------------------------------------- *)

\* C1: on a well-formed matrix of finite integer costs, with any finite
\* integer pad cost, the returned assignment pairs min(N, M) rows with
\* distinct real columns and its total cost is the least total cost of any
\* one-to-one pairing of min(N, M) rows with distinct columns.
C1_MinimumCost ==
    (pc = "done" /\ FiniteInput) =>
        /\ Cardinality(AssignedRows) = Min2(N, M)
        /\ \A k \in AssignedRows : result.assignment[k] \in 0..(M - 1)
        /\ \A k1, k2 \in AssignedRows :
              k1 # k2 => result.assignment[k1] # result.assignment[k2]
        /\ ReturnedCost = MinAssignCost(cost_matrix, N, M)

\* A rectangular matrix with costs of both signs for which taking each row's
\* cheapest column is no assignment, solved.
C1_Witness ==
    /\ pc = "done" /\ FiniteInput
    /\ N = 3 /\ M = 2 /\ pad_cost = -1
    /\ \E r \in 1..N, c \in 1..M : cost_matrix[r][c] < 0
    /\ \E r \in 1..N, c \in 1..M : cost_matrix[r][c] > 0
    /\ \A r \in 1..N : cost_matrix[r][1] < cost_matrix[r][2]
    /\ Cardinality(AssignedRows) = 2

\* C2: on a well-formed matrix of finite integer costs munkres returns
\* is_optimal = true; at return every matched edge of the padded matching has
\* reduced cost zero and the potentials of the matched rows and columns sum
\* to the total cost of the padded matching.
C2_Certified ==
    (pc = "done" /\ FiniteInput) =>
        /\ result.is_optimal = TRUE
        /\ PAD > 0 =>
            LET Matched == {r \in Idx : Z[r] # -1} IN
            /\ \A r \in Matched : Slack(r, Z[r]) = 0
            /\ SumFun([r \in Matched |-> u[r] + v[Z[r]]], Matched)
                 = SumFun([r \in Matched |-> PadCell(r, Z[r])], Matched)

\* A rectangular instance certified after at least one row was matched to a
\* virtual column, with potentials that are not all zero.
C2_Witness ==
    /\ pc = "done" /\ FiniteInput /\ result.is_optimal
    /\ N = 3 /\ M = 2 /\ pad_cost = 1
    /\ \E r \in Idx : Z[r] >= M
    /\ \E c \in Idx : v[c] < 0
    /\ \E r \in Idx : u[r] > 0

\* C3: on a well-formed matrix of finite costs the returned assignment has
\* length N with entries in {-1} \cup 0..M-1, the returned inversion has
\* length M with entries in {-1} \cup 0..N-1, exactly min(N, M) entries of
\* each differ from -1, and a row matched to a virtual column or a column
\* matched to a virtual row is reported as -1.
C3_Shape ==
    (pc = "done" /\ FiniteInput) =>
        /\ Len(result.assignment) = N
        /\ Len(result.inversion) = M
        /\ \A k \in 1..N : result.assignment[k] \in {-1} \cup (0..(M - 1))
        /\ \A k \in 1..M : result.inversion[k] \in {-1} \cup (0..(N - 1))
        /\ Cardinality(AssignedRows) = Min2(N, M)
        /\ Cardinality(OccupiedCols) = Min2(N, M)
        /\ PAD > 0 =>
            /\ \A r \in 0..(N - 1) : Z[r] >= M => result.assignment[r + 1] = -1
            /\ \A c \in 0..(M - 1) : inversions[c] >= N => result.inversion[c + 1] = -1

\* A 2 x 3 instance whose column 0 is matched to the virtual row.
C3_Witness ==
    /\ pc = "done" /\ FiniteInput
    /\ N = 2 /\ M = 3
    /\ inversions[0] = 2
    /\ result.inversion = <<-1, 0, 1>>
    /\ result.assignment = <<1, 2>>

\* C4: the matching vectors are mutually consistent when a search starts,
\* when a path has been applied, and in the returned trimmed vectors:
\* assignment[i] = j with j # -1 exactly when inversion[j] = i.
C4_Consistent ==
    /\ (Running /\ FiniteInput) =>
          \A r \in Idx, c \in Idx : (Z[r] = c) <=> (inversions[c] = r)
    /\ (pc = "done" /\ FiniteInput) =>
          \A r \in 1..N, c \in 1..M :
              (result.assignment[r] = c - 1) <=> (result.inversion[c] = r - 1)

\* A path of three edges has been applied: two matched rows were moved to
\* other columns.
C4_Witness ==
    /\ pc \in {"search", "return"} /\ FiniteInput
    /\ i = 3 /\ Len(path) = 3
    /\ Z[path[1][1]] = path[1][2]
    /\ Z[path[2][1]] = path[2][2]
    /\ Z[path[3][1]] = path[3][2]

\* C8: dual feasibility on finite integer costs: after the initialisation of
\* the potentials and after every update, cost(i, j) - u[i] - v[j] >= 0 for
\* every cell of the padded square, a virtual cell costing pad_cost.
C8_DualFeasible ==
    (Running /\ FiniteInput) => \A r \in Idx, c \in Idx : Slack(r, c) >= 0

\* The potentials of a rectangular instance with a negative pad cost have
\* just been updated with T non-empty: a cell of S x (columns outside T) has
\* become tight and a cell of (rows outside S) x T has a slack of 2 or more.
C8_Witness ==
    /\ pc = "search" /\ FiniteInput
    /\ N # M /\ pad_cost = -1
    /\ path_found = FALSE /\ T # {}
    /\ \E r \in S : \E c \in Idx \ T : Slack(r, c) = 0
    /\ \E r \in Idx \ S : \E c \in T : Slack(r, c) >= 2

\* C9: complementary slackness on finite integer costs: every matched edge
\* (i, Z[i]) has reduced cost exactly zero, after every application of a path
\* and after every update of the potentials.
C9_Tight ==
    (Running /\ FiniteInput) => \A r \in Idx : Z[r] # -1 => Slack(r, Z[r]) = 0

\* The potentials have just been updated while two rows are matched, one of
\* them in S with its column in T.
C9_Witness ==
    /\ pc = "search" /\ FiniteInput
    /\ path_found = FALSE /\ i = 2
    /\ \E r \in S : Z[r] # -1 /\ Z[r] \in T
    /\ \E r \in Idx \ S : Z[r] # -1

\* C10: applying a path grows the matching by exactly one row and unmatches
\* none: while row i is being processed exactly the rows 0..i-1 are matched,
\* so the root row is unmatched when its search starts, and once the loop
\* has processed every row all of them are matched.
C10_OneMoreRow ==
    (Running /\ FiniteInput) =>
        /\ pc \in {"search", "update", "apply"} =>
              /\ i \in Idx
              /\ \A r \in Idx : (Z[r] # -1) <=> (r < i)
        /\ pc \in {"return", "done"} =>
              /\ i = PAD
              /\ \A r \in Idx : Z[r] # -1

\* A path of two edges was applied for row 2: rows 0, 1, 2 are matched and
\* the row that held the first column of the path has moved.
C10_Witness ==
    /\ pc = "return" /\ FiniteInput
    /\ i = 3 /\ Len(path) = 2
    /\ path[1][1] = 2
    /\ Z[2] = path[1][2]
    /\ Z[path[2][1]] = path[2][2]
    /\ \A r \in Idx : Z[r] # -1

\* C5 (as claimed): every input that breaks the contract (no row, an empty
\* first row, rows of unequal lengths, shorter or longer than row 0) makes
\* munkres fail before any computation and never yields a result.  Any
\* exception is counted here as a rejection.
C5_RejectsMalformed ==
    ~WellFormed(cost_matrix) =>
        /\ pc \in {"start", "error"}
        /\ result = NoResult

\* C6: for every test case with finite entries, munkres with the default pad
\* cost on the matrix the test has padded returns an assignment whose entries
\* for the original rows equal the expected list; the 5 x 5 square case
\* returns [1, 0, 4, 2, 3].
C6_TestsPass ==
    /\ pc # "error"
    /\ pc = "done" =>
         \A k \in 1..Len(test_cases) :
            LET tp == test_padding(test_cases[k].matrix) IN
            (cost_matrix = tp.matrix /\ FiniteEntries(test_cases[k].matrix)) =>
                test_slice(result.assignment, tp.pad) = test_cases[k].expected

\* The 5 x 5 square case has returned [1, 0, 4, 2, 3].
C6_Witness ==
    /\ pc = "done"
    /\ cost_matrix = test_cases[3].matrix
    /\ result.assignment = <<1, 0, 4, 2, 3>>
    /\ result.is_optimal

\* Some pairing of min(n, m) rows with distinct columns uses finite cells only.
HasFiniteAssignment(cm) ==
    LET n == Len(cm)
        m == Len(cm[1])
    IN IF n <= m
       THEN \E f \in Injections(0..(n - 1), 0..(m - 1)) :
               \A r \in 0..(n - 1) : IsFinite(Cell(cm, r, f[r]))
       ELSE \E g \in Injections(0..(m - 1), 0..(n - 1)) :
               \A c \in 0..(m - 1) : IsFinite(Cell(cm, g[c], c))

InfInput ==
    /\ WellFormed(cost_matrix)
    /\ \A r \in 1..Len(cost_matrix) : \A c \in 1..Len(cost_matrix[r]) :
          IsFinite(cost_matrix[r][c]) \/ cost_matrix[r][c] = PosInf
    /\ IsFinite(pad_cost)

\* C7: on a matrix of finite integers and +inf cells that admits a complete
\* assignment over finite cells only, no returned pair (i, assignment[i]) is
\* a +inf cell.
C7_NoForbiddenPair ==
    (pc = "done" /\ InfInput /\ HasFiniteAssignment(cost_matrix)) =>
        \A k \in AssignedRows :
            Cell(cost_matrix, k - 1, result.assignment[k]) # PosInf

\* A 3 x 3 matrix with six forbidden cells and one finite assignment, solved.
C7_Witness ==
    /\ pc = "done"
    /\ cost_matrix = << <<1, PosInf, PosInf>>, <<PosInf, PosInf, 1>>, <<PosInf, 0, PosInf>> >>
    /\ result.assignment = <<0, 2, 1>>

\* C11: on finite integer costs, when a search has failed with S and T no
\* cell of S x (columns outside T) has reduced cost zero, so delta, the least
\* of them, is strictly positive; after u[i] += delta on S and v[j] -= delta
\* on T some cell of S x (columns outside T) has reduced cost zero; the
\* |delta| < eps break is never taken.
C11_DeltaPositive ==
    (Running /\ FiniteInput) =>
        /\ aborted = FALSE
        /\ pc = "update" =>
              /\ Idx \ T # {}
              /\ \A r \in S, c \in Idx \ T : Slack(r, c) > 0
        /\ (pc = "search" /\ updates > 0) =>
              /\ delta > 0
              /\ \E r \in S, c \in Idx \ T : Slack(r, c) = 0

\* Row 2 has failed with one column visited and the potentials have been
\* updated with delta = 2.
C11_Witness ==
    /\ pc = "search" /\ FiniteInput
    /\ i = 2 /\ updates = 1 /\ delta = 2
    /\ Cardinality(T) = 1
    /\ \E r \in S, c \in Idx \ T : Slack(r, c) = 0

\* The retry loop of a row: at most PAD updates, and T strictly grows from
\* one failed search of the row to the next.
RetriesBounded ==
    (Running /\ FiniteInput) =>
        /\ updates <= PAD
        /\ (pc = "update" /\ updates > 0) => (prevT \subseteq T /\ prevT # T)

\* The progress made by a call: the row of the outer loop, then the updates
\* made for it, then the position inside one pass of the while loop.
Measure ==
    IF pc = "start" THEN -1
    ELSE IF pc = "error" THEN 0
    ELSE i * (2 * PAD + 2) + 2 * updates
           + (IF pc \in {"update", "apply", "done"} THEN 1 ELSE 0)

\* C12: munkres terminates on every well-formed matrix of finite integer
\* costs: the search/update loop of each padded row ends with an augmenting
\* path after at most PAD potential updates, the column set T of a failed
\* search strictly containing the T of the failed search before it.  Every
\* step of the call strictly increases Measure, which is at most
\* PAD * (2 * PAD + 2) + 1, so the call makes finitely many steps.
C12_Terminates ==
    /\ [](RetriesBounded /\ (FiniteInput => Measure <= PAD * (2 * PAD + 2) + 1))
    /\ [][FiniteInput => Measure' > Measure]_vars

\* A row has failed a second time, with a T that has grown from one column to
\* two.
C12_Witness ==
    /\ pc = "update" /\ FiniteInput
    /\ updates = 1 /\ PAD = 4
    /\ Cardinality(prevT) = 1 /\ Cardinality(T) = 2
    /\ prevT \subseteq T

RECURSIVE Unmatched(_, _, _)
Unmatched(zi, pth, k) ==
    IF k > Len(pth) THEN 0
    ELSE (IF zi.Z[pth[k][1]] = pth[k][2] THEN 1 ELSE 0)
            + Unmatched(flip_edge(zi, pth[k]), pth, k + 1)

\* C14: in every search made by munkres the frontier sets satisfy
\* S = {root row} \cup {inversions[j] : j \in T} and |S| = |T| + 1; the
\* cycle branch of __search_augmented_path is never reached; and no edge of
\* a returned path is a matched pair when it is flipped, so the unmatch
\* branch of the flip is never executed.
C14_Frontier ==
    Running =>
        /\ cycle_seen = FALSE
        /\ pc \in {"update", "apply"} =>
              /\ S = {i} \cup {inversions[c] : c \in T}
              /\ Cardinality(S) = Cardinality(T) + 1
        /\ pc = "apply" =>
              Unmatched([Z |-> Z, inv |-> inversions], path, 1) = 0

\* The last row found a path of three edges through two matched columns.
C14_Witness ==
    /\ pc = "apply" /\ FiniteInput
    /\ Len(path) = 3
    /\ Cardinality(T) = 2 /\ Cardinality(S) = 3
    /\ \A c \in T : inversions[c] \in S \ {i}


====
